---------------------------- MODULE Spec2Model ----------------------------
(***************************************************************************)
(* Approviz savings estimator: js/config.js (the product savings table),   *)
(* js/model.js (calculateSavings) and js/main.js (the form controller).    *)
(*                                                                         *)
(* JavaScript numbers are modelled as exact fixed-point decimals: a number *)
(* x is the integer x * Unit.  The inputs are enumerated on a grid of      *)
(* halves, on which every product the code forms is a multiple of 1/Unit,  *)
(* so no operation of the model rounds.  The one value of the code that is *)
(* not a decimal, NaN, is a value of its own with IEEE 754's rules: it     *)
(* absorbs + and *, and it equals nothing, itself included.                *)
(***************************************************************************)
EXTENDS Integers, Sequences, FiniteSets, TLC

VARIABLES
    productSavingsConfig,   \* config.js: the table object imported by model.js
    params,                 \* the request object a caller of the module holds
    calls,                  \* every call of the formula by that caller so far
    inputNbEmployes,        \* main.js: the text of the three number fields,
    inputTauxHoraire,
    inputHeures,
    selectFrequence,        \* the value of the selected frequency option
    checkedBoxes,           \* the product checkboxes that are checked (their places)
    calculateBtnDisabled,   \* calculateBtn.disabled
    invalidFields,          \* the fields that carry is-invalid and an error message
    productsErrorShown,     \* whether #products-error-msg is in the page
    resultsHidden,          \* the hidden attribute of the results section
    elAdminSavings,         \* the text of the three result cards: <<>> as loaded,
    elProductSavings,       \*   <<n>> once a formatted amount was written
    elTotalSavings,
    submitted,              \* the call the submit handler made last: <<>> or <<call>>
    now,                    \* the clock of the page, in units of FrameUnit ms
    reducedMotion,          \* matchMedia('(prefers-reduced-motion: reduce)').matches
    finalValue,             \* animateCounter: <<>> before the call, <<finalValue>> after
    startTime,              \*   <<>> for null, <<t>> once a timestamp was stored
    stepScheduled           \*   whether requestAnimationFrame(step) has a callback pending

moduleVars == <<productSavingsConfig, params, calls>>

pageVars == <<inputNbEmployes, inputTauxHoraire, inputHeures, selectFrequence, checkedBoxes,
              calculateBtnDisabled, invalidFields, productsErrorShown, resultsHidden,
              elAdminSavings, elProductSavings, elTotalSavings, submitted>>

counterVars == <<now, reducedMotion, finalValue, startTime, stepScheduled>>

vars == <<moduleVars, pageVars, counterVars>>

---------------------------------------------------------------------------
(* Numbers *)

\* 1/Unit is the resolution of the fixed-point decimals: halves (2) times
\* halves (2) for a product of two inputs, times tenths of two (5) for 0.70.
Unit == 2 * 2 * 5

\* The number n of the source text, n an integer literal.
Num(n) == n * Unit

\* n / 2, the grid the decimal inputs are enumerated on.
Half(n) == n * (Unit \div 2)

\* JavaScript's NaN (a value outside the range of every decimal of the model).
NaN == -1000000

isNaN(x) == x = NaN

\* x * y of JavaScript.
Mul(x, y) == IF isNaN(x) \/ isNaN(y) THEN NaN ELSE (x * y) \div Unit

\* x + y of JavaScript.
Add(x, y) == IF isNaN(x) \/ isNaN(y) THEN NaN ELSE x + y

\* x < y, x <= y and x >= y of JavaScript: false as soon as one side is NaN.
Lt(x, y) == ~isNaN(x) /\ ~isNaN(y) /\ x < y
Le(x, y) == ~isNaN(x) /\ ~isNaN(y) /\ x <= y
Ge(x, y) == ~isNaN(x) /\ ~isNaN(y) /\ x >= y

\* !x of JavaScript on a number: 0 and NaN are the falsy numbers.
Falsy(x) == isNaN(x) \/ x = 0

\* x === y of JavaScript on numbers: NaN equals nothing.
StrictEq(x, y) == ~isNaN(x) /\ ~isNaN(y) /\ x = y

\* Whether x * y was formed without rounding (a check of the model's grid).
MulExact(x, y) == isNaN(x) \/ isNaN(y) \/ (x * y) % Unit = 0

---------------------------------------------------------------------------
(* js/config.js *)

productSavings ==
    [ tshirt          |-> Num(7),
      hoodie          |-> Num(12),
      crewneck        |-> Num(10),
      manteau         |-> Num(50),
      mancheLongue    |-> Num(10),
      hoodieZipper    |-> Num(20),
      tuque           |-> Num(10),
      casquetteBrodee |-> Num(10) ]

\* The table is an object literal, so a property read that misses its own keys
\* goes on to Object.prototype: these names are found there (functions, and
\* for __proto__ the prototype object itself).
ObjectPrototypeKeys ==
    { "constructor", "toString", "toLocaleString", "valueOf", "hasOwnProperty",
      "isPrototypeOf", "propertyIsEnumerable", "__proto__",
      "__defineGetter__", "__defineSetter__", "__lookupGetter__", "__lookupSetter__" }

---------------------------------------------------------------------------
(* js/model.js *)

\* The rate with the share kept in place of the share saved (1 - 0.70).
ADMIN_TIME_KEPT_RATE == (30 * Unit) \div 100

ADMIN_TIME_REDUCTION_RATE == (70 * Unit) \div 100

\* productSavingsConfig[productId] ?? 0, as the number the multiplication of
\* the next line makes of it: an own key gives its amount, an inherited member
\* is neither null nor undefined and converts to NaN, a miss gives 0.
economieUnitaire(config, productId) ==
    CASE productId \in DOMAIN config         -> config[productId]
      [] productId \in ObjectPrototypeKeys   -> NaN
      [] OTHER                               -> 0

\* articlesSelectionnes.reduce((total, productId) => total + economieUnitaire * nbEmployes, initial)
RECURSIVE reduce(_, _, _, _)
reduce(config, articles, nbEmployes, total) ==
    IF articles = <<>> THEN total
    ELSE reduce(config, Tail(articles), nbEmployes,
                Add(total, Mul(economieUnitaire(config, Head(articles)), nbEmployes)))

\* calculateSavings with the administrative cost counted once per employee.
calculateSavingsPerEmploye(p, config) ==
    LET coutAdminAnnuel   == Mul(Mul(Mul(p.heuresMensuelles, p.tauxHoraire), Num(12)),
                                 p.nbEmployes)
        adminSavings      == Mul(coutAdminAnnuel, ADMIN_TIME_REDUCTION_RATE)
        economiesProduits == Mul(reduce(config, p.articlesSelectionnes, p.nbEmployes, 0),
                                 p.frequence)
        totalSavings      == Add(adminSavings, economiesProduits)
    IN  [ adminSavings   |-> adminSavings,
          productSavings |-> economiesProduits,
          totalSavings   |-> totalSavings ]

calculateSavings(p, config) ==
    LET coutAdminAnnuel   == Mul(Mul(p.heuresMensuelles, p.tauxHoraire), Num(12))
        adminSavings      == Mul(coutAdminAnnuel, ADMIN_TIME_REDUCTION_RATE)
        economiesProduits == Mul(reduce(config, p.articlesSelectionnes, p.nbEmployes, 0),
                                 p.frequence)
        totalSavings      == Add(adminSavings, economiesProduits)
    IN  [ adminSavings   |-> adminSavings,
          productSavings |-> economiesProduits,
          totalSavings   |-> totalSavings ]

---------------------------------------------------------------------------
(* The requests the calls are made with *)

MaxNbEmployes == 4      \* employee counts 1, 1.5, .. MaxNbEmployes / 2
MaxTauxHoraire == 3     \* hourly rates 0, 0.5, .. MaxTauxHoraire / 2
MaxHeures == 2          \* monthly hours 0, 0.5, .. MaxHeures / 2
MaxFrequence == 2       \* orders per year 0 .. MaxFrequence
MaxArticles == 2        \* length of the selected product list

\* Two keys of the table, a name found nowhere, and a name found on Object.prototype.
ArticleIds == { "tshirt", "hoodie", "unknown-id", "toString" }

RECURSIVE SeqsUpTo(_, _)
SeqsUpTo(S, n) ==
    IF n = 0 THEN { <<>> }
    ELSE LET shorter == SeqsUpTo(S, n - 1)
         IN  shorter \cup { Append(s, x) : s \in { t \in shorter : Len(t) = n - 1 }, x \in S }

ArticleLists == SeqsUpTo(ArticleIds, MaxArticles)

NbEmployesGrid == { Half(n) : n \in 2..MaxNbEmployes }

Requests ==
    [ nbEmployes           : NbEmployesGrid,
      tauxHoraire          : { Half(n) : n \in 0..MaxTauxHoraire },
      heuresMensuelles     : { Half(n) : n \in 0..MaxHeures },
      frequence            : { Num(n) : n \in 0..MaxFrequence },
      articlesSelectionnes : ArticleLists ]

---------------------------------------------------------------------------
(* A caller of the module *)

\* The page as loaded: empty fields, nothing checked, the button disabled by
\* the script (main.js line 424), no error, no result.
PageLoaded ==
    /\ inputNbEmployes = ""
    /\ inputTauxHoraire = ""
    /\ inputHeures = ""
    /\ selectFrequence = ""
    /\ checkedBoxes = {}
    /\ calculateBtnDisabled = TRUE
    /\ invalidFields = {}
    /\ productsErrorShown = FALSE
    /\ resultsHidden = TRUE
    /\ elAdminSavings = <<>>
    /\ elProductSavings = <<>>
    /\ elTotalSavings = <<>>
    /\ submitted = <<>>

\* No counter was started: the clock at the time origin, animateCounter not called.
CounterIdle ==
    /\ now = 0
    /\ reducedMotion = FALSE
    /\ finalValue = <<>>
    /\ startTime = <<>>
    /\ stepScheduled = FALSE

Init ==
    /\ productSavingsConfig = productSavings
    /\ params \in Requests
    /\ calls = <<>>
    /\ PageLoaded
    /\ CounterIdle

\* calculateSavings(p) with the product total kept in a module-level variable
\* that is not reset: each call starts from the total of the call before it.
CallKeepingTotal(p) ==
    LET r     == calculateSavings(p, productSavingsConfig)
        carry == IF calls = <<>> THEN 0 ELSE calls[Len(calls)].result.productSavings
    IN  /\ calls' = Append(calls, [ request |-> p,
                                    result  |-> [r EXCEPT !.productSavings = Add(@, carry),
                                                          !.totalSavings   = Add(@, carry)] ])
        /\ UNCHANGED <<productSavingsConfig, params, pageVars, counterVars>>

\* calculateSavings(p) with the lookup written productSavingsConfig[productId] ??= 0:
\* an identifier found nowhere is added to the table with the amount 0.
CallWritingDefaults(p) ==
    LET articles == { p.articlesSelectionnes[i] : i \in DOMAIN p.articlesSelectionnes }
        added    == (articles \ DOMAIN productSavingsConfig) \ ObjectPrototypeKeys
    IN  /\ calls' = Append(calls, [ request |-> p,
                                    result  |-> calculateSavings(p, productSavingsConfig) ])
        /\ productSavingsConfig' =
               [ k \in DOMAIN productSavingsConfig \cup added |->
                   IF k \in DOMAIN productSavingsConfig THEN productSavingsConfig[k] ELSE 0 ]
        /\ UNCHANGED <<params, pageVars, counterVars>>

\* calculateSavings(p): the call reads p and the table and returns a new object.
Call(p) ==
    /\ calls' = Append(calls, [ request |-> p,
                                result  |-> calculateSavings(p, productSavingsConfig) ])
    /\ UNCHANGED <<productSavingsConfig, params, pageVars, counterVars>>

\* One call, with the request the caller holds.
CalculateOnce ==
    /\ calls = <<>>
    /\ Call(params)

Next == CalculateOnce

Spec == Init /\ [][Next]_vars

MaxCalls == 3           \* calls in one run of the sequence of calls

\* The worked example of the specification: 10 employees, 20 $/h, 5 h/month,
\* 4 orders a year, a t-shirt and a hoodie.
Scenario ==
    [ nbEmployes           |-> Num(10),
      tauxHoraire          |-> Num(20),
      heuresMensuelles     |-> Num(5),
      frequence            |-> Num(4),
      articlesSelectionnes |-> <<"tshirt", "hoodie">> ]

\* The scenario of the specification with an unknown product: 2 employees, one
\* order a year, a t-shirt and an identifier the table does not define.
ScenarioUnknown ==
    [ nbEmployes           |-> Num(2),
      tauxHoraire          |-> 0,
      heuresMensuelles     |-> 0,
      frequence            |-> Num(1),
      articlesSelectionnes |-> <<"tshirt", "unknown-id">> ]

\* The caller calls again with the request it holds.
CallAgain ==
    /\ Len(calls) < MaxCalls
    /\ Call(params)

\* Some other caller calls with the worked example.
CallScenario ==
    /\ Len(calls) < MaxCalls
    /\ Call(Scenario)

NextCalls == CallAgain \/ CallScenario

SpecCalls == Init /\ [][NextCalls]_vars

---------------------------------------------------------------------------
(* js/main.js: the form *)

\* What the user may leave in the number fields: nothing, and decimals below,
\* at and above the limits the checks draw.
NbEmployesTexts == { "", "0", "0.5", "2" }
AmountTexts == { "", "-1", "2" }

\* The values of the frequency options: the placeholder and one frequency.
FrequenceOptions == { "", "4" }

\* The value attributes of the product checkboxes, in document order.
productCheckboxes == << "tshirt", "hoodie" >>

\* parseFloat(text)
parseFloat(text) ==
    CASE text = ""    -> NaN
      [] text = "-1"  -> 0 - Num(1)
      [] text = "0"   -> 0
      [] text = "0.5" -> Half(1)
      [] text = "2"   -> Num(2)

\* parseInt(text, 10)
parseInt(text) ==
    CASE text = ""  -> NaN
      [] text = "4" -> Num(4)

\* Intl.NumberFormat('fr-CA', { maximumFractionDigits: 0 }).format(amount): the
\* text is modelled by the whole number of dollars it shows, ties rounded away
\* from zero, and by NaN for NaN.
formatCurrency(amount) ==
    IF isNaN(amount) THEN NaN
    ELSE IF amount >= 0 THEN (2 * amount + Unit) \div (2 * Unit)
    ELSE 0 - ((2 * (0 - amount) + Unit) \div (2 * Unit))

\* areMainFieldsValid with the employee count compared like the two amounts (nb >= 0).
areMainFieldsValidFromZero(nbText, tauxText, heuresText) ==
    LET nb     == parseFloat(nbText)
        taux   == parseFloat(tauxText)
        heures == parseFloat(heuresText)
    IN  /\ Ge(nb, 0) /\ Ge(taux, 0) /\ Ge(heures, 0)
        /\ ~isNaN(nb) /\ ~isNaN(taux) /\ ~isNaN(heures)

areMainFieldsValid(nbText, tauxText, heuresText) ==
    LET nb     == parseFloat(nbText)
        taux   == parseFloat(tauxText)
        heures == parseFloat(heuresText)
    IN  /\ Lt(0, nb) /\ Ge(taux, 0) /\ Ge(heures, 0)
        /\ ~isNaN(nb) /\ ~isNaN(taux) /\ ~isNaN(heures)

getFormData ==
    [ nbEmployes       |-> parseFloat(inputNbEmployes),
      tauxHoraire      |-> parseFloat(inputTauxHoraire),
      heuresMensuelles |-> parseFloat(inputHeures),
      frequence        |-> parseInt(selectFrequence) ]

\* Array.from(productCheckboxes).filter(cb => cb.checked).map(cb => cb.value)
RECURSIVE CheckedFrom(_)
CheckedFrom(i) ==
    IF i > Len(productCheckboxes) THEN <<>>
    ELSE (IF i \in checkedBoxes THEN <<productCheckboxes[i]>> ELSE <<>>) \o CheckedFrom(i + 1)

getSelectedProducts == CheckedFrom(1)

\* The fields validateInputs marks with setFieldError (the others it clears).
FieldErrors(formData) ==
    { f \in { "nbEmployes", "tauxHoraire", "heuresMensuelles", "frequence" } :
        CASE f = "nbEmployes" ->
               Falsy(formData.nbEmployes) \/ Le(formData.nbEmployes, 0)
                   \/ isNaN(formData.nbEmployes)
          [] f = "tauxHoraire" ->
               isNaN(formData.tauxHoraire) \/ Lt(formData.tauxHoraire, 0)
          [] f = "heuresMensuelles" ->
               isNaN(formData.heuresMensuelles) \/ Lt(formData.heuresMensuelles, 0)
          [] f = "frequence" ->
               Falsy(formData.frequence) \/ isNaN(formData.frequence)
                   \/ Le(formData.frequence, 0) }

\* The value validateInputs returns.
validateInputs(formData, articlesSelectionnes) ==
    FieldErrors(formData) = {} /\ Len(articlesSelectionnes) # 0

\* The user edits a number field: its input event runs updateButtonState.
InputNbEmployes(text) ==
    /\ inputNbEmployes' = text
    /\ calculateBtnDisabled' = ~areMainFieldsValid(text, inputTauxHoraire, inputHeures)
    /\ UNCHANGED <<moduleVars, counterVars, inputTauxHoraire, inputHeures, selectFrequence, checkedBoxes,
                   invalidFields, productsErrorShown, resultsHidden,
                   elAdminSavings, elProductSavings, elTotalSavings, submitted>>

InputTauxHoraire(text) ==
    /\ inputTauxHoraire' = text
    /\ calculateBtnDisabled' = ~areMainFieldsValid(inputNbEmployes, text, inputHeures)
    /\ UNCHANGED <<moduleVars, counterVars, inputNbEmployes, inputHeures, selectFrequence, checkedBoxes,
                   invalidFields, productsErrorShown, resultsHidden,
                   elAdminSavings, elProductSavings, elTotalSavings, submitted>>

InputHeures(text) ==
    /\ inputHeures' = text
    /\ calculateBtnDisabled' = ~areMainFieldsValid(inputNbEmployes, inputTauxHoraire, text)
    /\ UNCHANGED <<moduleVars, counterVars, inputNbEmployes, inputTauxHoraire, selectFrequence, checkedBoxes,
                   invalidFields, productsErrorShown, resultsHidden,
                   elAdminSavings, elProductSavings, elTotalSavings, submitted>>

\* The user picks a frequency option: no listener of the script runs.
SelectFrequence(option) ==
    /\ selectFrequence' = option
    /\ UNCHANGED <<moduleVars, counterVars, inputNbEmployes, inputTauxHoraire, inputHeures, checkedBoxes,
                   calculateBtnDisabled, invalidFields, productsErrorShown, resultsHidden,
                   elAdminSavings, elProductSavings, elTotalSavings, submitted>>

\* The user checks or unchecks a product: no listener of the script runs.
ToggleProduct(i) ==
    /\ checkedBoxes' = IF i \in checkedBoxes THEN checkedBoxes \ {i} ELSE checkedBoxes \cup {i}
    /\ UNCHANGED <<moduleVars, counterVars, inputNbEmployes, inputTauxHoraire, inputHeures, selectFrequence,
                   calculateBtnDisabled, invalidFields, productsErrorShown, resultsHidden,
                   elAdminSavings, elProductSavings, elTotalSavings, submitted>>

\* The submit handler of the form: read, validate, and, only when valid, clear
\* the errors, calculate and display.  displayResults writes the two first
\* cards and a total of 0 at once; the counter it queues for the total
\* (requestAnimationFrame, setTimeout, animateCounter) runs in later tasks,
\* which AnimateCounter and Step below model; the fbq call of the handler
\* writes nothing of the page.
Submit ==
    LET formData             == getFormData
        articlesSelectionnes == getSelectedProducts
        request == [ nbEmployes           |-> formData.nbEmployes,
                     tauxHoraire          |-> formData.tauxHoraire,
                     heuresMensuelles     |-> formData.heuresMensuelles,
                     frequence            |-> formData.frequence,
                     articlesSelectionnes |-> articlesSelectionnes ]
        results_ == calculateSavings(request, productSavingsConfig)
    IN  IF ~validateInputs(formData, articlesSelectionnes)
        THEN /\ invalidFields' = FieldErrors(formData)
             /\ productsErrorShown' = (Len(articlesSelectionnes) = 0)
             /\ UNCHANGED <<moduleVars, counterVars, inputNbEmployes, inputTauxHoraire, inputHeures,
                            selectFrequence, checkedBoxes, calculateBtnDisabled, resultsHidden,
                            elAdminSavings, elProductSavings, elTotalSavings, submitted>>
        ELSE /\ invalidFields' = {}
             /\ productsErrorShown' = FALSE
             /\ submitted' = << [ request |-> request, result |-> results_ ] >>
             /\ elAdminSavings' = << formatCurrency(results_.adminSavings) >>
             /\ elProductSavings' = << formatCurrency(results_.productSavings) >>
             /\ elTotalSavings' = << formatCurrency(0) >>
             /\ resultsHidden' = FALSE
             /\ UNCHANGED <<moduleVars, counterVars, inputNbEmployes, inputTauxHoraire, inputHeures,
                            selectFrequence, checkedBoxes, calculateBtnDisabled>>

InitPage ==
    /\ productSavingsConfig = productSavings
    /\ params = ScenarioUnknown
    /\ calls = <<>>
    /\ PageLoaded
    /\ CounterIdle

NextPage ==
    \/ \E text \in NbEmployesTexts : InputNbEmployes(text)
    \/ \E text \in AmountTexts : InputTauxHoraire(text)
    \/ \E text \in AmountTexts : InputHeures(text)
    \/ \E option \in FrequenceOptions : SelectFrequence(option)
    \/ \E i \in DOMAIN productCheckboxes : ToggleProduct(i)
    \/ Submit
    \/ CalculateOnce

SpecPage == InitPage /\ [][NextPage]_vars

---------------------------------------------------------------------------
(* js/main.js, the inline version (v2): its own table and formula *)

\* var economieUnitaire = { ... }: the table of the inline script.
economieUnitaireInline ==
    [ tshirt          |-> Num(7),
      hoodie          |-> Num(12),
      crewneck        |-> Num(10),
      manteau         |-> Num(50),
      mancheLongue    |-> Num(10),
      hoodieZipper    |-> Num(20),
      tuque           |-> Num(10),
      casquetteBrodee |-> Num(10) ]

\* economieUnitaire[article] || 0, as the number the multiplication of the
\* next line makes of it: an own key gives its amount (0 for a falsy one), an
\* inherited member is truthy and converts to NaN, a miss gives 0.
unitaire(article) ==
    CASE article \in DOMAIN economieUnitaireInline ->
           IF Falsy(economieUnitaireInline[article]) THEN 0
           ELSE economieUnitaireInline[article]
      [] article \in ObjectPrototypeKeys -> NaN
      [] OTHER -> 0

\* articlesSelectionnes.reduce(function(total, article) { ... }, initial)
RECURSIVE reduceInline(_, _, _)
reduceInline(articles, nbEmployes, total) ==
    IF articles = <<>> THEN total
    ELSE reduceInline(Tail(articles), nbEmployes,
                      Add(total, Mul(unitaire(Head(articles)), nbEmployes)))

\* Math.round(x): the nearest integer, a tie going up; NaN for NaN.
MathRound(x) ==
    IF isNaN(x) THEN NaN ELSE Num((2 * x + Unit) \div (2 * Unit))

\* calculerEconomies with the total returned as the sum of the two rounded parts.
calculerEconomiesSommeArrondie(p) ==
    LET coutAdmin         == Mul(Mul(p.heuresMensuelles, p.tauxHoraire), Num(12))
        economiesAdmin    == Mul(coutAdmin, ADMIN_TIME_REDUCTION_RATE)
        economiesProduits == Mul(reduceInline(p.articlesSelectionnes, p.nbEmployes, 0),
                                 p.frequence)
    IN  [ economiesAdmin    |-> MathRound(economiesAdmin),
          economiesProduits |-> MathRound(economiesProduits),
          totalEconomies    |-> Add(MathRound(economiesAdmin), MathRound(economiesProduits)) ]

calculerEconomies(p) ==
    LET coutAdmin         == Mul(Mul(p.heuresMensuelles, p.tauxHoraire), Num(12))
        economiesAdmin    == Mul(coutAdmin, ADMIN_TIME_REDUCTION_RATE)
        economiesProduits == Mul(reduceInline(p.articlesSelectionnes, p.nbEmployes, 0),
                                 p.frequence)
        totalEconomies    == Add(economiesAdmin, economiesProduits)
    IN  [ economiesAdmin    |-> MathRound(economiesAdmin),
          economiesProduits |-> MathRound(economiesProduits),
          totalEconomies    |-> MathRound(totalEconomies) ]

\* The value validerFormulaire returns.
validerFormulaire(formData, articlesSelectionnes) ==
    /\ ~(Falsy(formData.nbEmployes) \/ isNaN(formData.nbEmployes)
            \/ Lt(formData.nbEmployes, Num(1)))
    /\ ~(isNaN(formData.tauxHoraire) \/ Lt(formData.tauxHoraire, 0))
    /\ ~(isNaN(formData.heuresMensuelles) \/ Lt(formData.heuresMensuelles, 0))
    /\ ~(Falsy(formData.frequence) \/ isNaN(formData.frequence) \/ Le(formData.frequence, 0))
    /\ Len(articlesSelectionnes) # 0

\* One call of calculerEconomies, with the request the caller holds.
CalculerEconomiesOnce ==
    /\ calls = <<>>
    /\ calls' = Append(calls, [ request |-> params, result |-> calculerEconomies(params) ])
    /\ UNCHANGED <<productSavingsConfig, params, pageVars, counterVars>>

NextInline == CalculerEconomiesOnce

SpecInline == Init /\ [][NextInline]_vars

---------------------------------------------------------------------------
(* js/main.js: the counter of the total *)

\* Timestamps are counted in units of FrameUnit milliseconds.
FrameUnit == 5 * 100

\* duration = 1500, the default the page calls animateCounter with.
duration == 1500 \div FrameUnit

MaxTimestamp == 4       \* the clock runs to MaxTimestamp, and on to the end of a counter

\* !startTime: null, and a stored timestamp of 0 as well.
startTimeUnset == startTime = <<>> \/ startTime[1] = 0

\* Math.round(finalValue * easeOutCubic(progress)) for progress = elapsed / duration,
\* elapsed already clamped to duration: easeOutCubic(t) = 1 - (1 - t)^3 is
\* (duration^3 - (duration - elapsed)^3) / duration^3, and Math.round(x) is
\* the floor of x + 1/2.
currentValueAt(value, elapsed) ==
    LET cube  == duration * duration * duration
        rest  == (duration - elapsed) * (duration - elapsed) * (duration - elapsed)
        eased == cube - rest
    IN  IF isNaN(value) THEN NaN
        ELSE Num((2 * value * eased + Unit * cube) \div (2 * Unit * cube))

\* The page after an accepted submission: the form as filled, no error, the
\* two first cards written, the total card at 0, the section shown.
ResultsDisplayed ==
    /\ inputNbEmployes \in NbEmployesTexts
    /\ inputTauxHoraire \in AmountTexts
    /\ inputHeures \in AmountTexts
    /\ selectFrequence \in FrequenceOptions
    /\ checkedBoxes \in SUBSET DOMAIN productCheckboxes
    /\ validateInputs(getFormData, getSelectedProducts)
    /\ calculateBtnDisabled = ~areMainFieldsValid(inputNbEmployes, inputTauxHoraire, inputHeures)
    /\ invalidFields = {}
    /\ productsErrorShown = FALSE
    /\ resultsHidden = FALSE
    /\ LET request == [ nbEmployes           |-> getFormData.nbEmployes,
                        tauxHoraire          |-> getFormData.tauxHoraire,
                        heuresMensuelles     |-> getFormData.heuresMensuelles,
                        frequence            |-> getFormData.frequence,
                        articlesSelectionnes |-> getSelectedProducts ]
           results_ == calculateSavings(request, productSavingsConfig)
       IN  /\ submitted = << [ request |-> request, result |-> results_ ] >>
           /\ elAdminSavings = << formatCurrency(results_.adminSavings) >>
           /\ elProductSavings = << formatCurrency(results_.productSavings) >>
           /\ elTotalSavings = << formatCurrency(0) >>

InitCounter ==
    /\ productSavingsConfig = productSavings
    /\ params = ScenarioUnknown
    /\ calls = <<>>
    /\ ResultsDisplayed
    /\ now = 0
    /\ reducedMotion \in BOOLEAN
    /\ finalValue = <<>>
    /\ startTime = <<>>
    /\ stepScheduled = FALSE

\* The timeout of displayResults fires: animateCounter(elTotalSavings, results.totalSavings).
AnimateCounter ==
    /\ submitted # <<>>
    /\ finalValue = <<>>
    /\ finalValue' = << submitted[1].result.totalSavings >>
    /\ startTime' = <<>>
    /\ IF reducedMotion
       THEN /\ elTotalSavings' = << formatCurrency(submitted[1].result.totalSavings) >>
            /\ stepScheduled' = FALSE
       ELSE /\ stepScheduled' = TRUE
            /\ UNCHANGED elTotalSavings
    /\ UNCHANGED <<moduleVars, inputNbEmployes, inputTauxHoraire, inputHeures, selectFrequence,
                   checkedBoxes, calculateBtnDisabled, invalidFields, productsErrorShown,
                   resultsHidden, elAdminSavings, elProductSavings, submitted,
                   now, reducedMotion>>

\* step(timestamp) with the test of the last branch written progress <= 1:
\* the callback schedules itself again at the end of the duration too.
StepAlwaysScheduling ==
    /\ stepScheduled
    /\ LET start   == IF startTimeUnset THEN now ELSE startTime[1]
           elapsed == IF now - start >= duration THEN duration ELSE now - start
       IN  /\ startTime' = << start >>
           /\ elTotalSavings' = << formatCurrency(currentValueAt(finalValue[1], elapsed)) >>
           /\ stepScheduled' = TRUE
    /\ UNCHANGED <<moduleVars, inputNbEmployes, inputTauxHoraire, inputHeures, selectFrequence,
                   checkedBoxes, calculateBtnDisabled, invalidFields, productsErrorShown,
                   resultsHidden, elAdminSavings, elProductSavings, submitted,
                   now, reducedMotion, finalValue>>

\* An animation frame is delivered: step(timestamp) runs with the clock's
\* value.  progress = Math.min(elapsed / duration, 1) is elapsed clamped to
\* duration, over duration; the text written is the one the callback leaves.
Step ==
    /\ stepScheduled
    /\ LET start   == IF startTimeUnset THEN now ELSE startTime[1]
           elapsed == IF now - start >= duration THEN duration ELSE now - start
       IN  /\ startTime' = << start >>
           /\ IF elapsed < duration
              THEN /\ elTotalSavings' =
                          << formatCurrency(currentValueAt(finalValue[1], elapsed)) >>
                   /\ stepScheduled' = TRUE
              ELSE /\ elTotalSavings' = << formatCurrency(finalValue[1]) >>
                   /\ stepScheduled' = FALSE
    /\ UNCHANGED <<moduleVars, inputNbEmployes, inputTauxHoraire, inputHeures, selectFrequence,
                   checkedBoxes, calculateBtnDisabled, invalidFields, productsErrorShown,
                   resultsHidden, elAdminSavings, elProductSavings, submitted,
                   now, reducedMotion, finalValue>>

\* Time passes: up to MaxTimestamp, and beyond it for as long as a started
\* counter has not reached startTime + duration.
Tick ==
    /\ \/ now < MaxTimestamp
       \/ stepScheduled /\ ~startTimeUnset /\ now < startTime[1] + duration
    /\ now' = now + 1
    /\ UNCHANGED <<moduleVars, pageVars, reducedMotion, finalValue, startTime, stepScheduled>>

NextCounter == AnimateCounter \/ Step \/ Tick

\* Frames keep being delivered and their timestamps keep growing.
SpecCounter == InitCounter /\ [][NextCounter]_vars /\ WF_vars(Step) /\ WF_vars(Tick)

\* The call under study and what it returned.
called == calls # <<>>
results == calls[Len(calls)].result

\* Every product the call forms is a multiple of 1/Unit: the model rounds nothing.
NoRounding ==
    LET h == params.heuresMensuelles
        t == params.tauxHoraire
        c == Mul(Mul(h, t), Num(12))
    IN  /\ MulExact(h, t) /\ MulExact(Mul(h, t), Num(12)) /\ MulExact(c, ADMIN_TIME_REDUCTION_RATE)
        /\ \A id \in ArticleIds :
              MulExact(economieUnitaire(productSavingsConfig, id), params.nbEmployes)

---------------------------------------------------------------------------
(* The reference formulas of the specification, over the same numbers *)

\* unitSavings(product): the amount of the table, 0 for an identifier it does not define.
unitSavings(productId) ==
    IF productId \in DOMAIN productSavings THEN productSavings[productId] ELSE 0

RECURSIVE SumUnitSavings(_)
SumUnitSavings(articles) ==
    IF articles = <<>> THEN 0 ELSE unitSavings(Head(articles)) + SumUnitSavings(Tail(articles))

\* The identifiers of a list that the table defines, in their order.
RECURSIVE OwnKeysOf(_)
OwnKeysOf(articles) ==
    IF articles = <<>> THEN <<>>
    ELSE IF Head(articles) \in DOMAIN productSavings
         THEN <<Head(articles)>> \o OwnKeysOf(Tail(articles))
         ELSE OwnKeysOf(Tail(articles))

\* productSavings of the call made with the list reduced to `articles`.
ProductSavingsOf(articles) ==
    calculateSavings([params EXCEPT !.articlesSelectionnes = articles],
                     productSavingsConfig).productSavings

\* The sum of the productSavings of the entries of a list, each selected alone.
RECURSIVE SumOfSingles(_)
SumOfSingles(articles) ==
    IF articles = <<>> THEN 0
    ELSE Add(ProductSavingsOf(<<Head(articles)>>), SumOfSingles(Tail(articles)))

ValidRequest(p) ==
    /\ p.nbEmployes >= Num(1)
    /\ p.tauxHoraire >= 0
    /\ p.heuresMensuelles >= 0
    /\ p.frequence > 0

---------------------------------------------------------------------------
(* Claims *)

\* C1: for every valid request, whatever the product list, the result satisfies
\* totalSavings == adminSavings + productSavings.
C1_TotalIsSum ==
    (called /\ ValidRequest(params)) =>
        StrictEq(results.totalSavings, Add(results.adminSavings, results.productSavings))

\* C2: adminSavings is monthlyHours * hourlyRate * 12 * 0.70, whatever the other
\* fields of the request are (stated in integers: 100 * Unit * adminSavings, in
\* units of 1/Unit, is hours * rate * 12 * 70, each in units of 1/Unit).
C2_AdminSavingsFormula ==
    called =>
        results.adminSavings * Unit * 100
            = params.heuresMensuelles * params.tauxHoraire * 12 * 70

\* C2 witness: a call with hours and a rate above zero (and an arbitrary rest),
\* whose adminSavings is therefore above zero.
C2_Witness ==
    /\ called
    /\ params.heuresMensuelles = Half(1)
    /\ params.tauxHoraire = Half(2)
    /\ params.articlesSelectionnes = <<"toString", "hoodie">>
    /\ results.adminSavings = 84 * (Unit \div 20)

\* C3: productSavings is (the sum over the list of the table's unit savings) *
\* employeeCount * annualFrequency, for every request.
C3_ProductSavingsFormula ==
    called =>
        StrictEq(results.productSavings,
                 Mul(Mul(SumUnitSavings(params.articlesSelectionnes), params.nbEmployes),
                     params.frequence))

\* C4: an identifier that is no key of the table contributes exactly 0: the
\* list gives the productSavings of its own keys alone.
C4_UnknownContributesZero ==
    called =>
        StrictEq(results.productSavings, ProductSavingsOf(OwnKeysOf(params.articlesSelectionnes)))

\* C5: nothing is deduplicated: productSavings of a list is the sum of the
\* productSavings of its entries, each counted as often as it occurs.
C5_DuplicatesCounted ==
    called =>
        StrictEq(results.productSavings, SumOfSingles(params.articlesSelectionnes))

\* C6: with an empty list or a frequency of 0, productSavings == 0 and
\* totalSavings == adminSavings; with no hours and no rate as well, all three are 0.
C6_DegenerateIsZero ==
    (called /\ (params.articlesSelectionnes = <<>> \/ params.frequence = 0)) =>
        /\ StrictEq(results.productSavings, 0)
        /\ StrictEq(results.totalSavings, results.adminSavings)
        /\ (params.tauxHoraire = 0 /\ params.heuresMensuelles = 0) =>
              (StrictEq(results.adminSavings, 0) /\ StrictEq(results.totalSavings, 0))

\* C7: doubling employeeCount, and doubling annualFrequency, each exactly
\* doubles productSavings for the same selection.
C7_ProductSavingsLinear ==
    called =>
        LET twice == Mul(Num(2), results.productSavings)
            moreEmployes  == [params EXCEPT !.nbEmployes = Mul(Num(2), @)]
            moreFrequence == [params EXCEPT !.frequence = Mul(Num(2), @)]
        IN  /\ StrictEq(calculateSavings(moreEmployes, productSavingsConfig).productSavings, twice)
            /\ StrictEq(calculateSavings(moreFrequence, productSavingsConfig).productSavings, twice)

\* C8: adminSavings depends on hourlyRate and monthlyHours alone: a request
\* that differs in employeeCount and in the selected products yields the same.
C8_AdminSavingsIndependent ==
    called =>
        \A n \in NbEmployesGrid, a \in ArticleLists :
            calculateSavings([params EXCEPT !.nbEmployes = n, !.articlesSelectionnes = a],
                             productSavingsConfig).adminSavings
                = results.adminSavings

\* C8 witness: a call with adminSavings above zero and two products selected,
\* which the requests with one employee and no product are compared with.
C8_Witness ==
    /\ called
    /\ params.nbEmployes = Num(2)
    /\ Len(params.articlesSelectionnes) = 2
    /\ results.adminSavings > 0

\* C9: in a sequence of calls, two calls made with equal requests return the
\* same three fields (the same values: NaN where the other is NaN), whatever
\* was called before or between them.
C9_Deterministic ==
    \A i, j \in DOMAIN calls :
        calls[i].request = calls[j].request => calls[i].result = calls[j].result

\* C9 witness: the caller's request, then the worked example, then the caller's
\* request again, with product savings above zero in both.
C9_Witness ==
    /\ Len(calls) = 3
    /\ calls[1].request = params
    /\ calls[2].request = Scenario
    /\ calls[3].request = params
    /\ params # Scenario
    /\ calls[2].result.totalSavings = Num(1600)
    /\ calls[3].result.productSavings > 0

\* C10: no step of the page, a call of calculateSavings or a form submission,
\* changes the product savings table or the request object a caller passed.
C10_TableAndRequestUntouched ==
    [][productSavingsConfig' = productSavingsConfig /\ params' = params]_vars

\* C10 witness: a caller has called with an identifier the table does not
\* define, the form has been submitted with two products, and the table is the
\* one of config.js.
C10_Witness ==
    /\ calls # <<>>
    /\ calls[1].request.articlesSelectionnes = <<"tshirt", "unknown-id">>
    /\ submitted # <<>>
    /\ submitted[1].request.articlesSelectionnes = <<"tshirt", "hoodie">>
    /\ productSavingsConfig = productSavings
    /\ params = ScenarioUnknown

\* C11: for every valid request (employeeCount >= 1, hourlyRate >= 0,
\* monthlyHours >= 0, annualFrequency > 0) the three fields of the result,
\* adminSavings, productSavings and totalSavings, are all >= 0.
C11_NonNegative ==
    (called /\ ValidRequest(params)) =>
        /\ Ge(results.adminSavings, 0)
        /\ Ge(results.productSavings, 0)
        /\ Ge(results.totalSavings, 0)

\* C12: the submit handler calls the calculator only with inputs the validator
\* is required to accept: every field a number, employee count >= 1, hourly
\* rate >= 0, monthly hours >= 0, frequency > 0 and at least one product (a
\* rejected submission calls nothing, so the call last made stays the one of
\* an accepted submission).
C12_CalculatedOnlyIfValid ==
    submitted # <<>> =>
        LET request == submitted[1].request
        IN  /\ Ge(request.nbEmployes, Num(1))
            /\ Ge(request.tauxHoraire, 0)
            /\ Ge(request.heuresMensuelles, 0)
            /\ Lt(0, request.frequence)
            /\ request.articlesSelectionnes # <<>>

\* C13: for every valid input, the totalEconomies that calculerEconomies
\* returns equals economiesAdmin + economiesProduits as it returns them, each
\* of the three rounded on its own.
C13_RoundedTotalIsSum ==
    (called /\ ValidRequest(params)) =>
        StrictEq(results.totalEconomies,
                 Add(results.economiesAdmin, results.economiesProduits))

\* The integer nearest to x, a tie going away from zero; NaN for NaN.
NearestInteger(x) ==
    LET magnitude == IF x < 0 THEN 0 - x ELSE x
        whole     == magnitude \div Unit
        nearest   == IF 2 * (magnitude % Unit) >= Unit THEN whole + 1 ELSE whole
    IN  IF isNaN(x) THEN NaN
        ELSE IF x < 0 THEN 0 - Num(nearest) ELSE Num(nearest)

\* A request that one of the two validators of the form accepts.
AcceptedByValidation(p) ==
    \/ validerFormulaire(p, p.articlesSelectionnes)
    \/ validateInputs(p, p.articlesSelectionnes)

\* C14: for every request accepted by validation, each field calculerEconomies
\* returns is the nearest integer to the field of the same role that
\* calculateSavings returns for that request (the same value: NaN where the
\* other is NaN), and the two product tables are the same.
C14_InlineIsRoundedModular ==
    (called /\ AcceptedByValidation(params)) =>
        LET modular == calculateSavings(params, productSavingsConfig)
        IN  /\ results.economiesAdmin = NearestInteger(modular.adminSavings)
            /\ results.economiesProduits = NearestInteger(modular.productSavings)
            /\ results.totalEconomies = NearestInteger(modular.totalSavings)
            /\ economieUnitaireInline = productSavingsConfig

\* C14 witness: an accepted request whose three fields all need rounding:
\* 12.6, 10.5 and 23.1 returned by calculerEconomies as 13, 11 and 23.
C14_Witness ==
    /\ called
    /\ AcceptedByValidation(params)
    /\ params.nbEmployes = Half(3)
    /\ params.articlesSelectionnes = <<"tshirt">>
    /\ calculateSavings(params, productSavingsConfig).totalSavings = Num(23) + (Unit \div 10)
    /\ results = [ economiesAdmin |-> Num(13), economiesProduits |-> Num(11),
                   totalEconomies |-> Num(23) ]

\* The three main fields as they stand all parse to numbers, with an employee
\* count > 0, an hourly rate >= 0 and monthly hours >= 0.
MainFieldsParseValid ==
    LET nb     == parseFloat(inputNbEmployes)
        taux   == parseFloat(inputTauxHoraire)
        heures == parseFloat(inputHeures)
    IN  /\ nb # NaN /\ taux # NaN /\ heures # NaN
        /\ nb > 0 /\ taux >= 0 /\ heures >= 0

mainFields == <<inputNbEmployes, inputTauxHoraire, inputHeures>>

\* C15: the calculate button is disabled when the page is loaded; a step that
\* changes the text of the employee-count, hourly-rate or monthly-hours field
\* leaves it enabled if and only if the three fields then parse to valid
\* numbers; and a step that changes none of them (a frequency chosen, a
\* product toggled, a submission) leaves the button as it was.
C15_ButtonTracksMainFields ==
    /\ calculateBtnDisabled = TRUE
    /\ [][ /\ (mainFields' # mainFields) => (calculateBtnDisabled' = ~MainFieldsParseValid')
           /\ (mainFields' = mainFields) => (calculateBtnDisabled' = calculateBtnDisabled) ]_vars

\* C15 witness: the three fields were filled with valid numbers and the button
\* is enabled, with no frequency chosen and no product checked.
C15_Witness ==
    /\ inputNbEmployes = "0.5" /\ inputTauxHoraire = "2" /\ inputHeures = "2"
    /\ selectFrequence = "" /\ checkedBoxes = {}
    /\ ~calculateBtnDisabled

\* animateCounter was called and no step callback is scheduled any more.
counterStopped == finalValue # <<>> /\ ~stepScheduled

\* The element shows the formatted finalValue.
showsFinalValue == elTotalSavings = << formatCurrency(finalValue[1]) >>

\* C16: with frames delivered and timestamps growing, a counter that was
\* started eventually has no step scheduled; whenever none is scheduled the
\* element shows the formatted finalValue, and none is scheduled again; with
\* reduced motion preferred the call itself writes the final value and
\* schedules no frame.
C16_CounterTerminates ==
    /\ (finalValue # <<>>) ~> counterStopped
    /\ [](counterStopped => showsFinalValue)
    /\ [][counterStopped => counterStopped']_vars
    /\ [][(finalValue = <<>> /\ finalValue' # <<>> /\ reducedMotion) => counterStopped']_vars

\* C16 witness: a counter ran over frames (a start time was stored and the
\* clock reached start + duration), stopped, and the element shows a final
\* value that is not the 0 the card began with.
C16_Witness ==
    /\ counterStopped
    /\ ~reducedMotion
    /\ startTime # <<>>
    /\ now >= startTime[1] + duration
    /\ showsFinalValue
    /\ elTotalSavings # << formatCurrency(0) >>

=============================================================================
